---- MODULE Spec2Model ----
(***************************************************************************)
(* A model of the contact-tracing data generator of src/main.py:           *)
(* the infection probability function, the PeopleTracker (population,      *)
(* location pool, infected set, simulate_day) and the CovidDataGenerator   *)
(* driver that writes the csv file.                                        *)
(*                                                                         *)
(* Probabilities and random draws are exact rationals with the common      *)
(* denominator Den: a value v stands for v / Den.  Every constant of the   *)
(* source is a multiple of 1 / Den and so is every result of the           *)
(* probability formula, so no rounding is modelled away.                   *)
(***************************************************************************)
EXTENDS Integers, Sequences, FiniteSets, TLC

VARIABLES
    population,           \* PeopleTracker.population: sequence of PersonProfile
    available_locations,  \* PeopleTracker.available_locations: sequence of LocationProfile
    infected_population,  \* PeopleTracker.infected_population: set of person ids (PersonProfile hashes and compares by id)
    simulated_day,        \* PeopleTracker.simulated_day
    summary,              \* the list the last simulate_day call returned, while its caller holds it
    pc,                   \* position of the caller of the tracker / of generate_csv
    time_length,          \* CovidDataGenerator.TIME_LENGTH as read by generate_csv
    days_run,             \* the loop variable i of generate_csv: iterations completed
    csv,                  \* the rows written to the csv file so far
    call,                 \* arguments of the call examined on its own: of get_infection_probability,
                          \* of the constructor, or the places picked for update_infection
    result                \* what that call returned, raised, or computed on its way

vars == <<population, available_locations, infected_population, simulated_day,
          summary, pc, time_length, days_run, csv, call, result>>

tracker == <<population, available_locations, infected_population, simulated_day>>

-----------------------------------------------------------------------------
(* Bounds of the model *)

MaxPopulation == 2
MaxDays == 2
MaxTimeLength == 2
MaxInfectedCount == 12
MaxGrouped == 3

-----------------------------------------------------------------------------
(* Numbers *)

\* 0.5 * 0.01 / 10 * 0.5 / 4: every probability of the source is k / Den.
Den == 1000 * 80

Min(a, b) == IF a < b THEN a ELSE b

\* random.random() is in [0, 1): its least value and one that is at least
\* every probability below 1 that the program compares it with.
RandomDraws == {0, Den - 1}

-----------------------------------------------------------------------------
(* class Location(Enum) *)

Location == {"LIVING_ROOM", "RESTAURANT_TABLE", "INDOOR_PARTY",
             "CONFERENCE_ROOM", "CLASSROOM", "OUTDOOR_HIKE"}

\* list(Location): the members in definition order
all_locations == <<"LIVING_ROOM", "RESTAURANT_TABLE", "INDOOR_PARTY",
                   "CONFERENCE_ROOM", "CLASSROOM", "OUTDOOR_HIKE">>

\* Location.<member>.value
LocationValue(location) ==
    CASE location = "LIVING_ROOM"      -> 1
      [] location = "RESTAURANT_TABLE" -> 2
      [] location = "INDOOR_PARTY"     -> 3
      [] location = "CONFERENCE_ROOM"  -> 4
      [] location = "CLASSROOM"        -> 5
      [] location = "OUTDOOR_HIKE"     -> 6

\* LocationProfile(_id, location)
LocationProfile(_id, location) == [id |-> _id, location |-> location]

-----------------------------------------------------------------------------
(* InfectionProbabilitiesMapper.get_infection_probability *)

\* A local name that no branch assigned (no probability is negative)
Unbound == 0 - 1

\* What reading an unassigned local raises, in place of a returned value
UnboundLocalError == 0 - 2

\* Mutant of LocationProb: the statement for CLASSROOM is missing
LocationProbNoClassroom(location) ==
    CASE location = "LIVING_ROOM"      -> (40 * Den) \div 100
      [] location = "RESTAURANT_TABLE" -> (30 * Den) \div 100
      [] location = "INDOOR_PARTY"     -> (25 * Den) \div 100
      [] location = "CONFERENCE_ROOM"  -> (20 * Den) \div 100
      [] OTHER                         -> Unbound

\* The five `if location is ...: location_prob = ...` statements (lines 35-48)
LocationProb(location) ==
    CASE location = "LIVING_ROOM"      -> (40 * Den) \div 100
      [] location = "RESTAURANT_TABLE" -> (30 * Den) \div 100
      [] location = "INDOOR_PARTY"     -> (25 * Den) \div 100
      [] location = "CONFERENCE_ROOM"  -> (20 * Den) \div 100
      [] location = "CLASSROOM"        -> (15 * Den) \div 100
      [] OTHER                         -> Unbound

\* Mutant of InfectedMaskProb: the two branches exchanged
InfectedMaskProbSwapped(wearing_mask) ==
    IF wearing_mask THEN (90 * Den) \div 100 ELSE (3 * Den) \div 100

InfectedMaskProb(wearing_mask) ==
    IF wearing_mask THEN (3 * Den) \div 100 ELSE (90 * Den) \div 100

InfectedSocialDistancingProb(social_distancing) ==
    IF social_distancing THEN (5 * Den) \div 100 ELSE (70 * Den) \div 100

\* Mutant of CountFactor: the cap min(10, ...) is missing
CountFactorUncapped(infected_count) == 20 + infected_count

\* 1 + min(10, infected_count) / 10 * 0.5, as a multiple of 1/20
CountFactor(infected_count) == 20 + Min(10, infected_count)

\* (0.5 * l + 0.3 * m + 0.2 * s) * (1 + min(10, infected_count) / 10 * 0.5) / 4
\* with l, m, s in units of 1 / Den: ((5l + 3m + 2s) / 10) * (f / 20) / 4
Combine(location_prob, infected_mask_prob, infected_social_distancing_prob, infected_count) ==
    ((5 * location_prob + 3 * infected_mask_prob + 2 * infected_social_distancing_prob)
        * CountFactor(infected_count)) \div 800

\* Mutant of ReturnsZero: the test of infected_count is missing
ReturnsZeroHikeOnly(location, infected_count) ==
    location = "OUTDOOR_HIKE"

\* Mutant of ReturnsZero: the test of OUTDOOR_HIKE is missing from line 29, so
\* a hike with an infected occupant reaches the 0.01 of line 33
ReturnsZeroCountOnly(location, infected_count) ==
    infected_count = 0

\* The early return of line 29
ReturnsZero(location, infected_count) ==
    infected_count = 0 \/ location = "OUTDOOR_HIKE"

get_infection_probability(location_profile, infected_count, wearing_mask, social_distancing) ==
    LET location == location_profile.location
    IN  IF ReturnsZero(location, infected_count) THEN 0
        ELSE IF location = "OUTDOOR_HIKE" THEN (1 * Den) \div 100
        ELSE IF LocationProb(location) = Unbound THEN UnboundLocalError
        ELSE Combine(LocationProb(location), InfectedMaskProb(wearing_mask),
                     InfectedSocialDistancingProb(social_distancing), infected_count)

-----------------------------------------------------------------------------
(* class PersonProfile *)

HIGH_MASK_WEARING_PROBABILITY == (70 * Den) \div 100
HIGH_SOCIAL_DISTANCING_PROBABILITY == (60 * Den) \div 100
LOW_MASK_WEARING_PROBABILITY == (20 * Den) \div 100
LOW_SOCIAL_DISTANCING_PROBABILITY == (10 * Den) \div 100

PersonProfile(_id, likely_wear_mask, likely_social_distancing) ==
    [id |-> _id,
     mask_prob |-> IF likely_wear_mask THEN HIGH_MASK_WEARING_PROBABILITY
                   ELSE LOW_MASK_WEARING_PROBABILITY,
     social_distancing_prob |-> IF likely_social_distancing
                                THEN HIGH_SOCIAL_DISTANCING_PROBABILITY
                                ELSE LOW_SOCIAL_DISTANCING_PROBABILITY]

\* random.random() < self.mask_prob, u the value random.random() returned
will_wear_mask(person, u) == u < person.mask_prob

\* random.random() < self.social_distancing_prob
will_social_distance(person, u) == u < person.social_distancing_prob

-----------------------------------------------------------------------------
(* class PersonDay *)

PersonDay(day, person, place, pre_visit_covid, post_visit_covid, mask, social_distancing) ==
    [day |-> day, person |-> person, place |-> place,
     pre_visit_covid |-> pre_visit_covid, post_visit_covid |-> post_visit_covid,
     mask |-> mask, social_distancing |-> social_distancing]

-----------------------------------------------------------------------------
(* class PeopleTracker: construction *)

\* generate_population; mask_draws[i], distancing_draws[i] are the two values
\* random.random() returns in iteration i - 1 of the loop
generate_population(population_count, mask_wearing_rate, social_distancing_rate, mask_draws, distancing_draws) ==
    [i \in 1..population_count |->
        PersonProfile(i - 1, mask_draws[i] < mask_wearing_rate,
                      distancing_draws[i] < social_distancing_rate)]

\* The inner loop of generate_available_locations for one category
RECURSIVE LocationsOf(_, _, _)
LocationsOf(location, i, location_count) ==
    IF i >= location_count THEN <<>>
    ELSE <<LocationProfile(i, location)>> \o LocationsOf(location, i + 1, location_count)

\* generate_available_locations; counts[k] is what random.randint(1, 5)
\* returns for the k-th member of Location
RECURSIVE LocationsFrom(_, _)
LocationsFrom(k, counts) ==
    IF k > Len(all_locations) THEN <<>>
    ELSE LocationsOf(all_locations[k], 0, counts[k]) \o LocationsFrom(k + 1, counts)

generate_available_locations(counts) == LocationsFrom(1, counts)

\* int(x) of the number x = numerator / Den: the fraction is cut off, towards zero
IntOf(numerator) ==
    IF numerator >= 0 THEN numerator \div Den ELSE 0 - ((0 - numerator) \div Den)

\* Mutant of InitialInfectedCount: the product is rounded up, math.ceil for int
InitialInfectedCountCeil(people, initial_infection_rate) ==
    (Len(people) * initial_infection_rate + Den - 1) \div Den

\* int(len(self.population) * initial_infection_rate), the rate in units of 1 / Den
InitialInfectedCount(people, initial_infection_rate) ==
    IntOf(Len(people) * initial_infection_rate)

\* random.sample(self.population, k) raises ValueError when k is negative or
\* larger than the population
SampleRaises(people, initial_infection_rate) ==
    \/ InitialInfectedCount(people, initial_infection_rate) < 0
    \/ InitialInfectedCount(people, initial_infection_rate) > Len(people)

\* The sets set(random.sample(self.population, k)) can be: every set of k
\* distinct people (as their ids)
get_initial_infected_population(people, initial_infection_rate) ==
    {s \in SUBSET {people[i].id : i \in 1..Len(people)} :
        Cardinality(s) = InitialInfectedCount(people, initial_infection_rate)}

-----------------------------------------------------------------------------
(* class PeopleTracker: simulate_day *)

\* Mutant of SetDefaultAppend: grouped_location[location] = [person], which
\* drops the people already in the group
SetDefaultOverwrite(grouped_location, location, person) ==
    IF \E g \in 1..Len(grouped_location) : grouped_location[g].location = location
    THEN [g \in 1..Len(grouped_location) |->
            IF grouped_location[g].location = location
            THEN [grouped_location[g] EXCEPT !.people = <<person>>]
            ELSE grouped_location[g]]
    ELSE Append(grouped_location, [location |-> location, people |-> <<person>>])

\* grouped_location.setdefault(location, []).append(person) on a dict kept as
\* the sequence of its items in insertion order, the order a dict iterates in
SetDefaultAppend(grouped_location, location, person) ==
    IF \E g \in 1..Len(grouped_location) : grouped_location[g].location = location
    THEN [g \in 1..Len(grouped_location) |->
            IF grouped_location[g].location = location
            THEN [grouped_location[g] EXCEPT !.people = Append(@, person)]
            ELSE grouped_location[g]]
    ELSE Append(grouped_location, [location |-> location, people |-> <<person>>])

\* The loop of determine_locations from person k on; choice[k] is the index
\* random.choice picks in available_locations for the k-th person
RECURSIVE GroupFrom(_, _, _, _, _)
GroupFrom(people, locations, choice, k, grouped_location) ==
    IF k > Len(people) THEN grouped_location
    ELSE GroupFrom(people, locations, choice, k + 1,
                   SetDefaultAppend(grouped_location, locations[choice[k]], people[k]))

\* determine_locations: the second component of its result, grouped_location
determine_locations(people, locations, choice) ==
    GroupFrom(people, locations, choice, 1, <<>>)

\* Mutant of InfectedCountInLocation: len(self.infected_population), the
\* infected people of every location
InfectedCountEverywhere(people_in_location, infected) ==
    Cardinality(infected)

\* The first inner loop of update_infection (lines 210-213)
InfectedCountInLocation(people_in_location, infected) ==
    Cardinality({j \in 1..Len(people_in_location) : people_in_location[j].id \in infected})

\* Mutant of AddIfPost: the add is outside the `if post_covid`
AddAlways(infected, person, post_covid) ==
    infected \cup {person.id}

\* Mutant of AddIfPost: the set is replaced by the person instead of extended
AssignIfPost(infected, person, post_covid) ==
    IF post_covid THEN {person.id} ELSE infected

\* Mutant of AddIfPost: an infected person is added only when already recorded
\* as infected before the visit, so a new infection is never stored
AddNever(infected, person, post_covid) ==
    IF post_covid /\ person.id \in infected THEN infected \cup {person.id} ELSE infected

\* `if post_covid: self.infected_population.add(person)` (lines 231-232)
AddIfPost(infected, person, post_covid) ==
    IF post_covid THEN infected \cup {person.id} ELSE infected

\* `random.random() < infection_probability` (line 229): what it can evaluate to
PostCovidOutcomes(infection_probability) ==
    {u < infection_probability : u \in RandomDraws}

\* Mutant of RecordsOf: the elif branch is missing, so a person who is
\* already infected goes through the draw like anybody else
RecordsOfNoInfectedBranch(day, location, person, infected_count_in_location, infected, draws) ==
    LET wore_mask == will_wear_mask(person, draws.mask)
        social_distanced == will_social_distance(person, draws.distancing)
    IN  IF infected_count_in_location = 0 /\ person.id \notin infected
        THEN {PersonDay(day, person, location, FALSE, FALSE, wore_mask, social_distanced)}
        ELSE {PersonDay(day, person, location, FALSE, post_covid, wore_mask, social_distanced) :
                post_covid \in PostCovidOutcomes(get_infection_probability(
                    location, infected_count_in_location, wore_mask, social_distanced))}

\* Mutant of RecordsOf: in the else branch pre_covid is read after the person
\* was added to the set, so it equals post_covid
RecordsOfPreAfterAdd(day, location, person, infected_count_in_location, infected, draws) ==
    LET wore_mask == will_wear_mask(person, draws.mask)
        social_distanced == will_social_distance(person, draws.distancing)
    IN  IF infected_count_in_location = 0 /\ person.id \notin infected
        THEN {PersonDay(day, person, location, FALSE, FALSE, wore_mask, social_distanced)}
        ELSE IF person.id \in infected
        THEN {PersonDay(day, person, location, TRUE, TRUE, wore_mask, social_distanced)}
        ELSE {PersonDay(day, person, location, post_covid, post_covid, wore_mask, social_distanced) :
                post_covid \in PostCovidOutcomes(get_infection_probability(
                    location, infected_count_in_location, wore_mask, social_distanced))}

\* One iteration of the second inner loop (lines 216-235): the records it can
\* append.  draws = [mask, distancing]: the values random.random() returns in
\* will_wear_mask and will_social_distance for this person
RecordsOf(day, location, person, infected_count_in_location, infected, draws) ==
    LET wore_mask == will_wear_mask(person, draws.mask)
        social_distanced == will_social_distance(person, draws.distancing)
    IN  IF infected_count_in_location = 0 /\ person.id \notin infected
        THEN {PersonDay(day, person, location, FALSE, FALSE, wore_mask, social_distanced)}
        ELSE IF person.id \in infected
        THEN {PersonDay(day, person, location, TRUE, TRUE, wore_mask, social_distanced)}
        ELSE {PersonDay(day, person, location, FALSE, post_covid, wore_mask, social_distanced) :
                post_covid \in PostCovidOutcomes(get_infection_probability(
                    location, infected_count_in_location, wore_mask, social_distanced))}

\* The second inner loop over one group from its j-th person on; st is
\* [infected, day_summary, counts]: the infected set, the list built so far
\* and the values infected_count_in_location has had, one per group in the
\* order processed.  The result is the set of the values st can have when the
\* loop ends
RECURSIVE PeopleLoop(_, _, _, _, _, _)
PeopleLoop(day, group, count, draws, j, st) ==
    IF j > Len(group.people) THEN {st}
    ELSE LET person == group.people[j]
         IN  UNION {PeopleLoop(day, group, count, draws, j + 1,
                               [st EXCEPT !.infected = AddIfPost(st.infected, person, rec.post_visit_covid),
                                          !.day_summary = Append(st.day_summary, rec)]) :
                      rec \in RecordsOf(day, group.location, person, count, st.infected, draws[person.id])}

\* The sum of the counts in a trace of counts
RECURSIVE SumOfCounts(_)
SumOfCounts(counts) ==
    IF counts = <<>> THEN 0 ELSE counts[1].count + SumOfCounts(Tail(counts))

\* Mutant of GroupLoop: `infected_count_in_location = 0` stands before the
\* outer loop, so the count of a group starts from the counts of the groups
\* processed before it
RECURSIVE GroupLoopCountNotReset(_, _, _, _, _)
GroupLoopCountNotReset(day, group_by_locations, draws, g, st) ==
    IF g > Len(group_by_locations) THEN {st}
    ELSE LET group == group_by_locations[g]
             count == SumOfCounts(st.counts) + InfectedCountInLocation(group.people, st.infected)
         IN  UNION {GroupLoopCountNotReset(day, group_by_locations, draws, g + 1, after) :
                      after \in PeopleLoop(day, group, count, draws, 1,
                                           [st EXCEPT !.counts = Append(st.counts,
                                               [location |-> group.location, count |-> count])])}

\* The outer loop `for location in group_by_locations` from the g-th group on
RECURSIVE GroupLoop(_, _, _, _, _)
GroupLoop(day, group_by_locations, draws, g, st) ==
    IF g > Len(group_by_locations) THEN {st}
    ELSE LET group == group_by_locations[g]
             count == InfectedCountInLocation(group.people, st.infected)
         IN  UNION {GroupLoop(day, group_by_locations, draws, g + 1, after) :
                      after \in PeopleLoop(day, group, count, draws, 1,
                                           [st EXCEPT !.counts = Append(st.counts,
                                               [location |-> group.location, count |-> count])])}

\* Mutant of SortKey: the location instance id is missing from the key
SortKeyNoInstance(people_day) ==
    <<LocationValue(people_day.place.location), 0, people_day.person.id>>

\* The sort key of line 238
SortKey(people_day) ==
    <<LocationValue(people_day.place.location), people_day.place.id, people_day.person.id>>

\* Python's order on tuples of three integers
KeyLess(a, b) ==
    \/ a[1] < b[1]
    \/ a[1] = b[1] /\ a[2] < b[2]
    \/ a[1] = b[1] /\ a[2] = b[2] /\ a[3] < b[3]

\* Inserts rec into the sorted list after every element whose key is not greater
Insert(sorted, rec) ==
    LET before == {i \in 1..Len(sorted) : ~KeyLess(SortKey(rec), SortKey(sorted[i]))}
        n == Cardinality(before)
    IN  SubSeq(sorted, 1, n) \o <<rec>> \o SubSeq(sorted, n + 1, Len(sorted))

\* list.sort(key=...): a stable sort, as an insertion sort from the left
RECURSIVE SortFrom(_, _, _)
SortFrom(list, k, sorted) ==
    IF k > Len(list) THEN sorted ELSE SortFrom(list, k + 1, Insert(sorted, list[k]))

Sort(day_summary) == SortFrom(day_summary, 1, <<>>)

\* update_infection: the values [infected, day_summary] it can end with, the
\* infected set it leaves and the sorted list it returns
update_infection(day, group_by_locations, infected, draws) ==
    {[infected |-> st.infected, day_summary |-> Sort(st.day_summary)] :
        st \in GroupLoop(day, group_by_locations, draws, 1,
                         [infected |-> infected, day_summary |-> <<>>, counts |-> <<>>])}

\* update_infection as above, together with the values
\* infected_count_in_location had, in the order of the groups processed
update_infection_counts(day, group_by_locations, infected, draws) ==
    {[infected |-> st.infected, day_summary |-> Sort(st.day_summary), counts |-> st.counts] :
        st \in GroupLoop(day, group_by_locations, draws, 1,
                         [infected |-> infected, day_summary |-> <<>>, counts |-> <<>>])}

-----------------------------------------------------------------------------
(* class CovidDataGenerator *)

INITIAL_INFECTION_RATE == (3 * Den) \div 100
MASK_WEARING_RATE == (70 * Den) \div 100
SOCIAL_DISTANCING_RATE == (50 * Den) \div 100

\* The header row generate_csv writes first
Header == <<"day", "person", "place", "pre-visit covid positive",
            "post-visit covid positive", "mask", "social distancing">>

\* str() of a bool
StrBool(b) == IF b THEN "True" ELSE "False"

\* Location.<member>.name.lower()
LowerName(location) ==
    CASE location = "LIVING_ROOM"      -> "living_room"
      [] location = "RESTAURANT_TABLE" -> "restaurant_table"
      [] location = "INDOOR_PARTY"     -> "indoor_party"
      [] location = "CONFERENCE_ROOM"  -> "conference_room"
      [] location = "CLASSROOM"        -> "classroom"
      [] location = "OUTDOOR_HIKE"     -> "outdoor_hike"

\* PersonDay.to_csv_row
to_csv_row(people_day) ==
    <<people_day.day,
      "person " \o ToString(people_day.person.id),
      LowerName(people_day.place.location) \o " " \o ToString(people_day.place.id),
      StrBool(people_day.pre_visit_covid), StrBool(people_day.post_visit_covid),
      StrBool(people_day.mask), StrBool(people_day.social_distancing)>>

\* The rows `for row in self.generate_data(): writer.writerow(row.to_csv_row())` writes
RowsOf(people_data) == [k \in 1..Len(people_data) |-> to_csv_row(people_data[k])]

-----------------------------------------------------------------------------
(* Inputs *)

\* The initial infection rates a tracker is constructed with: 0, 0.5 and 1
InitialInfectionRates == {0, Den \div 2, Den}

\* What the six calls of random.randint(1, 5) return, in the order of Location
LocationCounts == {<<1, 2, 1, 1, 1, 1>>}

\* The values random.random() returns for one person in will_wear_mask and
\* will_social_distance
PersonDraws == [mask : RandomDraws, distancing : RandomDraws]

\* The value the k-th call (from 0) of random.random() in generate_population
\* returns: one sequence of draws, in which each comparison goes both ways
TierDraw(k) == IF k % 3 = 0 THEN 0 ELSE Den - 1

PersonIds == {population[i].id : i \in 1..Len(population)}

NoCall == [location |-> "none"]
NoResult == 0 - 3

\* The ValueError random.sample raises, as what a construction ends with
ValueError == 0 - 4

\* The arguments PeopleTracker is constructed with: population counts from -1
\* on, initial infection rates from -1/2 to 3/2, and the mask and distancing
\* rates of the generator, a mask rate of 2 or a distancing rate of -1
PopulationCounts == (0 - 1)..MaxPopulation
ConfigInfectionRates == {0 - (Den \div 2), 0, Den \div 2, Den, (3 * Den) \div 2}
ConfigTraitRates ==
    {<<MASK_WEARING_RATE, SOCIAL_DISTANCING_RATE>>,
     <<2 * Den, SOCIAL_DISTANCING_RATE>>,
     <<MASK_WEARING_RATE, 0 - Den>>}
Configs ==
    {[population_count |-> n, initial_infection_rate |-> r,
      mask_wearing_rate |-> t[1], social_distancing_rate |-> t[2]] :
        n \in PopulationCounts, r \in ConfigInfectionRates, t \in ConfigTraitRates}

-----------------------------------------------------------------------------
(* The tracker and its caller *)

\* The population __init__ generates (line 129) from the four arguments of the
\* constructor, config = [population_count, initial_infection_rate,
\* mask_wearing_rate, social_distancing_rate]
PopulationOf(config) ==
    generate_population(config.population_count, config.mask_wearing_rate, config.social_distancing_rate,
                        [i \in 1..config.population_count |-> TierDraw(2 * (i - 1))],
                        [i \in 1..config.population_count |-> TierDraw(2 * (i - 1) + 1)])

\* PeopleTracker.__init__(population_count, initial_infection_rate,
\* MASK_WEARING_RATE, SOCIAL_DISTANCING_RATE): the trackers it can yield
Constructed(population_count, initial_infection_rate) ==
    LET people == PopulationOf([population_count |-> population_count,
                                initial_infection_rate |-> initial_infection_rate,
                                mask_wearing_rate |-> MASK_WEARING_RATE,
                                social_distancing_rate |-> SOCIAL_DISTANCING_RATE])
    IN  /\ simulated_day = 0
        /\ population = people
        /\ \E counts \in LocationCounts : available_locations = generate_available_locations(counts)
        /\ infected_population \in get_initial_infected_population(people, initial_infection_rate)

\* Mutant of simulate_day: simulated_day is incremented before the records are
\* built, so they carry the day after
simulate_day_increment_first ==
    \E choice \in [1..Len(population) -> 1..Len(available_locations)], draws \in [PersonIds -> PersonDraws] :
        \E updated \in update_infection(simulated_day + 1,
                                         determine_locations(population, available_locations, choice),
                                         infected_population, draws) :
            /\ infected_population' = updated.infected
            /\ summary' = updated.day_summary
            /\ simulated_day' = simulated_day + 1
            /\ UNCHANGED <<population, available_locations>>

\* Mutant of simulate_day: the location pool loses its last instance in every
\* call, as if locations were popped from the pool
simulate_day_pops_location ==
    \E choice \in [1..Len(population) -> 1..Len(available_locations)], draws \in [PersonIds -> PersonDraws] :
        \E updated \in update_infection(simulated_day,
                                         determine_locations(population, available_locations, choice),
                                         infected_population, draws) :
            /\ infected_population' = updated.infected
            /\ summary' = updated.day_summary
            /\ simulated_day' = simulated_day + 1
            /\ available_locations' = SubSeq(available_locations, 1, Len(available_locations) - 1)
            /\ UNCHANGED population

\* PeopleTracker.simulate_day
simulate_day ==
    \E choice \in [1..Len(population) -> 1..Len(available_locations)], draws \in [PersonIds -> PersonDraws] :
        \E updated \in update_infection(simulated_day,
                                         determine_locations(population, available_locations, choice),
                                         infected_population, draws) :
            /\ infected_population' = updated.infected
            /\ summary' = updated.day_summary
            /\ simulated_day' = simulated_day + 1
            /\ UNCHANGED <<population, available_locations>>

Init ==
    /\ \E population_count \in 0..MaxPopulation, initial_infection_rate \in InitialInfectionRates :
            Constructed(population_count, initial_infection_rate)
    /\ summary = <<>>
    /\ pc = "idle"
    /\ time_length = 0 /\ days_run = 0 /\ csv = <<>>
    /\ call = NoCall /\ result = NoResult

\* A caller calls simulate_day and holds the list it returns
SimulateDay ==
    /\ pc = "idle"
    /\ simulated_day < MaxDays
    /\ simulate_day
    /\ pc' = "returned"
    /\ UNCHANGED <<time_length, days_run, csv, call, result>>

\* The caller is done with the list
Release ==
    /\ pc = "returned"
    /\ summary' = <<>>
    /\ pc' = "idle"
    /\ UNCHANGED <<tracker, time_length, days_run, csv, call, result>>

Next == SimulateDay \/ Release

Spec == Init /\ [][Next]_vars

-----------------------------------------------------------------------------
(* PeopleTracker(...) called with arguments of any kind, then simulate_day *)

\* No tracker yet: `call` holds the arguments the constructor is called with
ConfigInit ==
    /\ call \in Configs
    /\ pc = "new"
    /\ population = <<>> /\ available_locations = <<>>
    /\ infected_population = {} /\ simulated_day = 0
    /\ summary = <<>>
    /\ time_length = 0 /\ days_run = 0 /\ csv = <<>>
    /\ result = NoResult

\* PeopleTracker.__init__ (lines 128-132): the only statement that can raise
\* is random.sample in get_initial_infected_population; no argument is tested
Construct ==
    /\ pc = "new"
    /\ IF SampleRaises(PopulationOf(call), call.initial_infection_rate)
       THEN /\ pc' = "raised"
            /\ result' = ValueError
            /\ UNCHANGED tracker
       ELSE /\ population' = PopulationOf(call)
            /\ \E counts \in LocationCounts : available_locations' = generate_available_locations(counts)
            /\ infected_population' \in
                  get_initial_infected_population(PopulationOf(call), call.initial_infection_rate)
            /\ simulated_day' = 0
            /\ pc' = "idle"
            /\ UNCHANGED result
    /\ UNCHANGED <<summary, time_length, days_run, csv, call>>

\* The first simulate_day call on the tracker constructed
FirstCall ==
    /\ simulated_day = 0
    /\ SimulateDay

ConfigNext == Construct \/ FirstCall

ConfigSpec == ConfigInit /\ [][ConfigNext]_vars

-----------------------------------------------------------------------------
(* update_infection called with the groups of a day in any order *)

\* The orders the items of a dict of n items can be in
Orders(n) == {order \in [1..n -> 1..n] : \A a, b \in 1..n : order[a] = order[b] => a = b}

\* The dict with its items in the given order
Reorder(grouped_location, order) ==
    [k \in 1..Len(grouped_location) |-> grouped_location[order[k]]]

\* The groups determine_locations builds from the choices held in `call`
Groups == determine_locations(population, available_locations, call.choice)

\* The values random.random() returns in will_wear_mask and
\* will_social_distance: here the same pair for every person
OrderDraws == {[p \in PersonIds |-> d] : d \in PersonDraws}

\* The places random.choice picks among here: the instances of three
\* categories, one of them with two instances and one the OUTDOOR_HIKE
OrderPlaces ==
    {k \in 1..Len(available_locations) :
        available_locations[k].location \in {"LIVING_ROOM", "RESTAURANT_TABLE", "OUTDOOR_HIKE"}}

\* A tracker of up to MaxGrouped people with any of them infected, as a
\* construction or earlier calls can leave it, and the locations
\* random.choice picks for them, held in `call`
OrderInit ==
    /\ \E population_count \in 0..MaxGrouped :
          /\ population = PopulationOf([population_count |-> population_count,
                                         initial_infection_rate |-> INITIAL_INFECTION_RATE,
                                         mask_wearing_rate |-> MASK_WEARING_RATE,
                                         social_distancing_rate |-> SOCIAL_DISTANCING_RATE])
          /\ infected_population \in SUBSET (0..(population_count - 1))
    /\ \E counts \in LocationCounts : available_locations = generate_available_locations(counts)
    /\ simulated_day = 0
    /\ \E choice \in [1..Len(population) -> OrderPlaces] : call = [choice |-> choice]
    /\ summary = <<>>
    /\ pc = "call"
    /\ time_length = 0 /\ days_run = 0 /\ csv = <<>>
    /\ result = <<>>

\* update_infection(day, group_by_locations) with the groups in any order;
\* `result` is the trace of infected_count_in_location
UpdateInfection ==
    /\ pc = "call"
    /\ \E order \in Orders(Len(Groups)), draws \in OrderDraws :
          \E updated \in update_infection_counts(simulated_day, Reorder(Groups, order),
                                                 infected_population, draws) :
              /\ infected_population' = updated.infected
              /\ summary' = updated.day_summary
              /\ result' = updated.counts
    /\ pc' = "returned"
    /\ UNCHANGED <<population, available_locations, simulated_day, time_length, days_run, csv, call>>

OrderNext == UpdateInfection

OrderSpec == OrderInit /\ [][OrderNext]_vars

-----------------------------------------------------------------------------
(* CovidDataGenerator.generate_csv *)

\* CovidDataGenerator.__init__, with POPULATION scaled down to the model's bound
DriverInit ==
    /\ \E population_count \in 0..MaxPopulation : Constructed(population_count, INITIAL_INFECTION_RATE)
    /\ summary = <<>>
    /\ pc = "open"
    /\ time_length \in 0..MaxTimeLength
    /\ days_run = 0 /\ csv = <<>>
    /\ call = NoCall /\ result = NoResult

\* open(csv_file, 'w+') and the first writer.writerow
WriteHeader ==
    /\ pc = "open"
    /\ csv' = <<Header>>
    /\ pc' = "loop"
    /\ UNCHANGED <<tracker, summary, time_length, days_run, call, result>>

\* Mutant of GenerateData: the loop runs once more, range(TIME_LENGTH + 1)
GenerateDataOnceMore ==
    /\ pc = "loop"
    /\ days_run <= time_length
    /\ simulate_day
    /\ pc' = "rows"
    /\ UNCHANGED <<time_length, days_run, csv, call, result>>

\* generate_data up to its first yield: people_data = simulate_day()
GenerateData ==
    /\ pc = "loop"
    /\ days_run < time_length
    /\ simulate_day
    /\ pc' = "rows"
    /\ UNCHANGED <<time_length, days_run, csv, call, result>>

\* The inner loop: one row per record the generator yields
WriteRows ==
    /\ pc = "rows"
    /\ csv' = csv \o RowsOf(summary)
    /\ summary' = <<>>
    /\ days_run' = days_run + 1
    /\ pc' = "loop"
    /\ UNCHANGED <<tracker, time_length, call, result>>

\* range(TIME_LENGTH) is exhausted: the with block closes the file
CloseFile ==
    /\ pc = "loop"
    /\ days_run >= time_length
    /\ pc' = "done"
    /\ UNCHANGED <<tracker, summary, time_length, days_run, csv, call, result>>

DriverNext == WriteHeader \/ GenerateData \/ WriteRows \/ CloseFile

DriverSpec == DriverInit /\ [][DriverNext]_vars

-----------------------------------------------------------------------------
(* get_infection_probability called on its own *)

ProbInit ==
    /\ population = <<>> /\ available_locations = <<>>
    /\ infected_population = {} /\ simulated_day = 0
    /\ summary = <<>>
    /\ pc = "call"
    /\ time_length = 0 /\ days_run = 0 /\ csv = <<>>
    /\ call \in [location : {LocationProfile(0, l) : l \in Location},
                 infected_count : 0..MaxInfectedCount,
                 wearing_mask : BOOLEAN, social_distancing : BOOLEAN]
    /\ result = NoResult

GetInfectionProbability ==
    /\ pc = "call"
    /\ result' = get_infection_probability(call.location, call.infected_count,
                                           call.wearing_mask, call.social_distancing)
    /\ pc' = "returned"
    /\ UNCHANGED <<tracker, summary, time_length, days_run, csv, call>>

ProbNext == GetInfectionProbability

ProbSpec == ProbInit /\ [][ProbNext]_vars

-----------------------------------------------------------------------------
(* Properties of simulate_day, checked under Spec *)

\* The ids a population of the model can hold
Ids == 0..(MaxPopulation - 1)

\* A simulate_day call has just returned `summary`
Returned == pc = "returned"

\* The step is a simulate_day call
IsCall == pc = "idle" /\ pc' = "returned"

\* C1: the list simulate_day returns holds exactly one record for each person
\* of the population and no other record: it is as long as the population,
\* every record's person is a member of the population, and every person's id
\* occurs in exactly one record.
C1_OneRecordPerPerson ==
    Returned =>
        /\ Len(summary) = Len(population)
        /\ \A k \in 1..Len(summary) :
              \E i \in 1..Len(population) : summary[k].person = population[i]
        /\ \A i \in 1..Len(population) :
              Cardinality({k \in 1..Len(summary) : summary[k].person.id = population[i].id}) = 1

\* C1 witness: a call returned for two people who were sent to the same
\* location instance (one group of two).
C1_Witness ==
    /\ Returned
    /\ Len(population) = 2
    /\ Len(summary) = 2
    /\ summary[1].place = summary[2].place

\* C2: no step removes a person from infected_population: the set before a
\* step is a subset of the set after it (so its cardinality never decreases).
C2_InfectedOnlyGrows ==
    [][infected_population \subseteq infected_population']_vars

\* C2 witness: a call returned in which somebody was newly infected while
\* somebody else had been infected before, so the set held a member to keep
\* while it grew.
C2_Witness ==
    /\ Returned
    /\ \E k, m \in 1..Len(summary) :
          /\ ~summary[k].pre_visit_covid /\ summary[k].post_visit_covid
          /\ summary[m].pre_visit_covid
    /\ Cardinality(infected_population) = 2

\* Person p has a record with post_visit_covid true in the list just returned
RecordedPost(p) ==
    /\ Returned
    /\ \E k \in 1..Len(summary) :
          summary[k].person.id = p /\ summary[k].post_visit_covid

\* C3: whenever a returned record says post_visit_covid of a person, that
\* person is in infected_population at that return, and a person who is in the
\* set is in it after every step, so after every later simulate_day call.
C3_PostInfectedStays ==
    /\ [](\A p \in Ids : RecordedPost(p) => p \in infected_population)
    /\ [][\A p \in Ids : p \in infected_population => p \in infected_population']_vars

\* C3 witness: a second call has returned and a person it records as infected
\* before the visit is in the set: every person infected before the second
\* call was recorded with post_visit_covid true by the first.
C3_Witness ==
    /\ Returned
    /\ simulated_day = 2
    /\ \E k \in 1..Len(summary) :
          summary[k].pre_visit_covid /\ summary[k].person.id \in infected_population
    /\ \E k \in 1..Len(summary) : ~summary[k].post_visit_covid

\* C4: in every record a call returns, pre_visit_covid is true exactly when
\* the record's person was in infected_population before the call started.
C4_PreIffInfectedBefore ==
    [][IsCall =>
          \A k \in 1..Len(summary') :
              summary'[k].pre_visit_covid <=> summary'[k].person.id \in infected_population]_vars

\* C4 witness: a call returned one record with pre_visit_covid true and one
\* with pre_visit_covid false whose person the call itself infected.
C4_Witness ==
    /\ Returned
    /\ \E k, m \in 1..Len(summary) :
          /\ summary[k].pre_visit_covid
          /\ ~summary[m].pre_visit_covid /\ summary[m].post_visit_covid
    /\ simulated_day = 1

\* C5: the returned list is strictly ascending in the key (location category
\* value, location instance id, person id): each record's key is below the
\* next record's key, so no two records share a key.
C5_SortedStrictly ==
    Returned =>
        \A k \in 1..(Len(summary) - 1) :
            LET a == summary[k]
                b == summary[k + 1]
            IN  \/ LocationValue(a.place.location) < LocationValue(b.place.location)
                \/ /\ LocationValue(a.place.location) = LocationValue(b.place.location)
                   /\ a.place.id < b.place.id
                \/ /\ LocationValue(a.place.location) = LocationValue(b.place.location)
                   /\ a.place.id = b.place.id
                   /\ a.person.id < b.person.id

\* C5 witness: the sort moved a record: person 1, whose group is never
\* processed before person 0's, comes first in the returned list, and the two
\* records differ only in the instance id of their place's category.
C5_Witness ==
    /\ Returned
    /\ Len(summary) = 2
    /\ summary[1].person.id = 1
    /\ summary[2].person.id = 0
    /\ summary[1].place.location = summary[2].place.location

-----------------------------------------------------------------------------
(* Properties of get_infection_probability, checked under ProbSpec *)

\* get_infection_probability has returned `result` for the arguments `call`
ProbReturned == pc = "returned" /\ call # NoCall

\* C6: with infected_count 0 the result is 0, whatever the location category
\* and whatever wearing_mask and social_distancing are.
C6_ZeroCountGivesZero ==
    (ProbReturned /\ call.infected_count = 0) => result = 0

\* C6 witness: the call returned for infected_count 0 in a living room without
\* mask and without distancing, the arguments of the highest factors.
C6_Witness ==
    /\ ProbReturned
    /\ call.infected_count = 0
    /\ call.location.location = "LIVING_ROOM"
    /\ ~call.wearing_mask /\ ~call.social_distancing

\* C7: for a fixed location and fixed wearing_mask and social_distancing the
\* result does not decrease when infected_count grows from 1 on, and from 10 on
\* it is the result for 10.
C7_NonDecreasingInCount ==
    (ProbReturned /\ call.infected_count >= 1) =>
        /\ \A k \in (call.infected_count + 1)..(MaxInfectedCount + 1) :
              result <= get_infection_probability(call.location, k, call.wearing_mask,
                                                  call.social_distancing)
        /\ call.infected_count >= 10 =>
              result = get_infection_probability(call.location, 10, call.wearing_mask,
                                                 call.social_distancing)

\* C7 witness: the call returned a positive probability for a count above the
\* cap of 10.
C7_Witness ==
    /\ ProbReturned
    /\ call.infected_count = 11
    /\ result > 0

\* C8: for a positive infected_count, the result with mask and distancing is
\* at most the result for the same location and count with neither.
C8_MaskAndDistancingNoWorse ==
    (ProbReturned /\ call.infected_count > 0 /\ call.wearing_mask /\ call.social_distancing) =>
        result <= get_infection_probability(call.location, call.infected_count, FALSE, FALSE)

\* C8 witness: the call returned a positive probability with mask and
\* distancing in a classroom.
C8_Witness ==
    /\ ProbReturned
    /\ call.infected_count > 0
    /\ call.wearing_mask /\ call.social_distancing
    /\ call.location.location = "CLASSROOM"
    /\ result > 0

\* C9: for every location category, every infected_count >= 0 and every
\* wearing_mask and social_distancing, the call returns a value in [0, 1]: it
\* never reads an unassigned location_prob.
C9_ResultInUnitInterval ==
    ProbReturned => (result # UnboundLocalError /\ result >= 0 /\ result <= Den)

\* C9 witness: the call returned for OUTDOOR_HIKE, the category no
\* location_prob is assigned for, with a positive infected_count.
C9_Witness ==
    /\ ProbReturned
    /\ call.location.location = "OUTDOOR_HIKE"
    /\ call.infected_count > 0
    /\ result = 0

-----------------------------------------------------------------------------
(* Properties of generate_csv, checked under DriverSpec *)

\* The data rows of the file: all rows but the first
DataRows == IF csv = <<>> THEN <<>> ELSE Tail(csv)

\* What is left to do: iterations, then steps within the iteration
Remaining ==
    CASE pc = "open" -> 3 * (time_length + 1)
      [] pc = "loop" -> 3 * (time_length - days_run) + 2
      [] pc = "rows" -> 3 * (time_length - days_run)
      [] pc = "done" -> 0

\* In every state of a run of generate_csv: nothing is written before the
\* header and the header is the first row; simulate_day has been called once
\* per iteration begun; the data rows are population-size many per iteration
\* completed, the k-th of them carries the day (k - 1) div population size;
\* when the run is done, simulate_day has been called TIME_LENGTH times.
DriverInv ==
    /\ pc = "open" => csv = <<>>
    /\ pc # "open" => (csv # <<>> /\ Head(csv) = Header)
    /\ days_run <= time_length
    /\ simulated_day = days_run + (IF pc = "rows" THEN 1 ELSE 0)
    /\ Len(DataRows) = days_run * Len(population)
    /\ \A k \in 1..Len(DataRows) : DataRows[k][1] = (k - 1) \div Len(population)
    /\ pc = "done" => (simulated_day = time_length /\ days_run = time_length)
    /\ (pc = "done" /\ time_length = 0) => csv = <<Header>>
    /\ pc # "done" => ENABLED DriverNext

\* In every step of a run of generate_csv: the rows written for a day are the
\* rows of the records simulate_day returned, in the order returned, and the
\* step brings the run closer to its end.
DriverStep ==
    /\ pc = "rows" => csv' = csv \o [k \in 1..Len(summary) |-> to_csv_row(summary[k])]
    /\ Remaining' < Remaining

\* C10: generate_csv writes the header first, calls simulate_day exactly
\* TIME_LENGTH times and then ends (every step before the end can be taken and
\* lowers the number of steps left), forwards each day's records in the order
\* returned, so that the data rows are TIME_LENGTH * population size many,
\* grouped by day in ascending order; with TIME_LENGTH 0 the file holds the
\* header only.
C10_DriverWritesDaysInOrder ==
    []DriverInv /\ [][DriverStep]_vars

\* C10 witness: the run is done after two days with two people: four data
\* rows follow the header.
C10_Witness ==
    /\ pc = "done"
    /\ time_length = 2
    /\ Len(population) = 2
    /\ Len(csv) = 5

\* The indices of the records in the list the step returns whose person is p
RecordsOfPerson(p) == {k \in 1..Len(summary') : summary'[k].person.id = p}

\* C13: in every simulate_day call, each person who is in infected_population
\* before the call has a record in the returned list, and each of their
\* records says pre_visit_covid and post_visit_covid (so on day 0 this holds
\* of every initially infected person); and in every record of the list,
\* pre_visit_covid implies post_visit_covid.
C13_InfectedBeforeStaysInRecord ==
    [][IsCall =>
          /\ \A p \in infected_population :
                /\ RecordsOfPerson(p) # {}
                /\ \A k \in RecordsOfPerson(p) :
                      summary'[k].pre_visit_covid /\ summary'[k].post_visit_covid
          /\ \A k \in 1..Len(summary') :
                summary'[k].pre_visit_covid => summary'[k].post_visit_covid]_vars

\* C13 witness: the first call has returned a record with pre_visit_covid and
\* post_visit_covid both true (an initially infected person on day 0) next to
\* a record with both false.
C13_Witness ==
    /\ Returned
    /\ simulated_day = 1
    /\ \E k, m \in 1..Len(summary) :
          /\ summary[k].pre_visit_covid /\ summary[k].post_visit_covid
          /\ summary[k].day = 0
          /\ ~summary[m].pre_visit_covid /\ ~summary[m].post_visit_covid

\* The record at index k of the list the step returns is of a person who was
\* exposed: the location instance of the record is no OUTDOOR_HIKE and a
\* record of the same instance is of a person infected before the step
Exposed(k) ==
    /\ summary'[k].place.location # "OUTDOOR_HIKE"
    /\ \E m \in 1..Len(summary') :
          /\ summary'[m].place = summary'[k].place
          /\ summary'[m].person.id \in infected_population

\* C16: in every simulate_day call, a person who is not infected before the
\* call is in infected_population after it only if the location instance they
\* visited held an occupant infected before the call and is no OUTDOOR_HIKE;
\* in every other case their record says pre_visit_covid false and
\* post_visit_covid false and they are not in the set after the call.
C16_InfectedOnlyWhenExposed ==
    [][IsCall =>
          \A k \in 1..Len(summary') :
              summary'[k].person.id \notin infected_population =>
                  /\ summary'[k].person.id \in infected_population' => Exposed(k)
                  /\ ~Exposed(k) =>
                        /\ ~summary'[k].pre_visit_covid
                        /\ ~summary'[k].post_visit_covid
                        /\ summary'[k].person.id \notin infected_population']_vars

\* C16 witness: a call returned in which an uninfected person shared an
\* OUTDOOR_HIKE instance with a person infected before the visit and stayed
\* uninfected.
C16_Witness ==
    /\ Returned
    /\ \E k, m \in 1..Len(summary) :
          /\ summary[k].place = summary[m].place
          /\ summary[k].place.location = "OUTDOOR_HIKE"
          /\ summary[m].pre_visit_covid
          /\ ~summary[k].pre_visit_covid /\ ~summary[k].post_visit_covid
          /\ summary[k].person.id \notin infected_population

\* C17: simulated_day is 0 after construction; every simulate_day call raises
\* it by exactly one and every record the call returns carries the value
\* simulated_day had before the call (so the records of the k-th call all
\* carry day k - 1); no other step changes it.
C17_DayCountsCalls ==
    /\ simulated_day = 0
    /\ [][IF IsCall
          THEN /\ simulated_day' = simulated_day + 1
               /\ \A k \in 1..Len(summary') : summary'[k].day = simulated_day
          ELSE simulated_day' = simulated_day]_vars

\* C17 witness: the second call has returned two records, both of day 1.
C17_Witness ==
    /\ Returned
    /\ simulated_day = 2
    /\ Len(summary) = 2
    /\ summary[1].day = 1 /\ summary[2].day = 1

\* C19: a simulate_day call leaves population and available_locations as they
\* were (of the tracker it changes infected_population and simulated_day
\* only), and infected_population always holds members of the population only.
C19_CallKeepsPeopleAndPlaces ==
    /\ [](infected_population \subseteq {population[i].id : i \in 1..Len(population)})
    /\ [][IsCall => /\ population' = population
                    /\ available_locations' = available_locations]_vars

\* C19 witness: the second call has returned, it infected a person, and the
\* tracker still holds its two people and its seven location instances.
C19_Witness ==
    /\ Returned
    /\ simulated_day = 2
    /\ Len(population) = 2
    /\ Len(available_locations) = 7
    /\ Cardinality(infected_population) = 2
    /\ \E k \in 1..Len(summary) : ~summary[k].pre_visit_covid /\ summary[k].post_visit_covid

\* C20: after every simulate_day call infected_population is exactly the set
\* of the persons whose record in the returned list says post_visit_covid,
\* which is the set before the call together with the persons whose record
\* says pre_visit_covid false and post_visit_covid true.
C20_InfectedIsRecordedPost ==
    [][IsCall =>
          /\ infected_population' =
                {summary'[k].person.id : k \in {m \in 1..Len(summary') : summary'[m].post_visit_covid}}
          /\ infected_population' = infected_population \cup
                {summary'[k].person.id : k \in {m \in 1..Len(summary') :
                    ~summary'[m].pre_visit_covid /\ summary'[m].post_visit_covid}}]_vars

\* C20 witness: a call returned with one record of post_visit_covid true and
\* one of post_visit_covid false, and the set holds exactly the one person.
C20_Witness ==
    /\ Returned
    /\ Cardinality(infected_population) = 1
    /\ \E k, m \in 1..Len(summary) :
          /\ summary[k].post_visit_covid /\ summary[k].person.id \in infected_population
          /\ ~summary[m].post_visit_covid /\ summary[m].person.id \notin infected_population

-----------------------------------------------------------------------------
(* Properties of the constructor, checked under ConfigSpec *)

\* The arguments are a configuration the specification calls valid
ValidConfig(config) ==
    /\ config.population_count >= 0
    /\ config.initial_infection_rate \in 0..Den
    /\ config.mask_wearing_rate \in 0..Den
    /\ config.social_distancing_rate \in 0..Den

\* A tracker exists: the constructor returned
HasTracker == pc \in {"idle", "returned"}

\* C12: constructing a PeopleTracker with a negative population_count or with
\* an initial_infection_rate, mask_wearing_rate or social_distancing_rate
\* outside [0,1] ends with an error and never yields a tracker (so none on
\* which simulate_day runs): a tracker exists only for a valid configuration,
\* and a construction with an invalid one has raised once it is over.
C12_InvalidConfigurationFails ==
    /\ HasTracker => ValidConfig(call)
    /\ (pc # "new" /\ ~ValidConfig(call)) => (pc = "raised" /\ result = ValueError)

\* C18: after construction with an initial infection rate r in [0,1],
\* infected_population holds exactly floor(n * r) distinct people, n the
\* size of the population, and every one of them is in the population.
C18_InitialInfectedIsFloor ==
    (pc = "idle" /\ call.initial_infection_rate \in 0..Den) =>
        /\ Cardinality(infected_population) =
              (Len(population) * call.initial_infection_rate) \div Den
        /\ infected_population \subseteq {population[i].id : i \in 1..Len(population)}

\* C18 witness: a tracker constructed with two people and rate 1/2 holds
\* exactly one infected person.
C18_Witness ==
    /\ pc = "idle"
    /\ call.initial_infection_rate = Den \div 2
    /\ Len(population) = 2
    /\ Cardinality(infected_population) = 1

-----------------------------------------------------------------------------
(* Properties of update_infection, checked under OrderSpec *)

\* The step is a call of update_infection
IsUpdate == pc = "call" /\ pc' = "returned"

\* The people sent to the location who are infected when the call starts
SnapshotCount(location) ==
    Cardinality({i \in 1..Len(population) :
                    /\ available_locations[call.choice[i]] = location
                    /\ population[i].id \in infected_population})

\* C14: in every call and for every location group, the value of
\* infected_count_in_location (the one passed to get_infection_probability)
\* is the number of the group's occupants who are in infected_population when
\* the call starts, in whatever order the groups are processed and whatever
\* was added to the set while other groups were processed.
C14_CountIsDayStartCount ==
    [][IsUpdate =>
          /\ {result'[c].location : c \in 1..Len(result')} =
                {Groups[g].location : g \in 1..Len(Groups)}
          /\ \A c \in 1..Len(result') :
                result'[c].count = SnapshotCount(result'[c].location)]_vars

\* C14 witness: the first group processed held an infected person and one who
\* became infected in this call, and the group processed after it held one
\* person, infected before: its count was 1 while the set held two people.
C14_Witness ==
    /\ pc = "returned"
    /\ Len(population) = 3
    /\ Len(result) = 2
    /\ result[1].count = 1 /\ result[2].count = 1
    /\ Cardinality(infected_population) = 3
    /\ \E k \in 1..Len(summary) :
          /\ summary[k].place = result[1].location
          /\ ~summary[k].pre_visit_covid /\ summary[k].post_visit_covid
    /\ \E k \in 1..Len(summary) :
          summary[k].place = result[2].location /\ summary[k].pre_visit_covid

\* What a call can end with when the groups are processed in the given order:
\* the infected set, the list returned and the count of every group
OutcomesIn(order, draws) ==
    {[infected |-> updated.infected, day_summary |-> updated.day_summary,
      counts |-> {updated.counts[c] : c \in 1..Len(updated.counts)}] :
        updated \in update_infection_counts(simulated_day, Reorder(Groups, order),
                                            infected_population, draws)}

\* A call is about to start in which there are two groups or more, and in one
\* of them, not an OUTDOOR_HIKE, an infected person meets an uninfected one
CanInfectInOneOfManyGroups ==
    /\ pc = "call"
    /\ Len(Groups) >= 2
    /\ \E g \in 1..Len(Groups) :
          /\ Groups[g].location.location # "OUTDOOR_HIKE"
          /\ \E a, b \in 1..Len(Groups[g].people) :
                /\ Groups[g].people[a].id \in infected_population
                /\ Groups[g].people[b].id \notin infected_population

\* C15 as stated: groups processed later see the infections added by groups
\* processed earlier: where a person can become infected in one of several
\* groups, there is an order of the groups in which the count computed for a
\* group differs from its count at the start of the call, and there are two
\* orders whose possible outcomes differ.
C15_LaterGroupsSeeEarlierInfections ==
    CanInfectInOneOfManyGroups =>
        /\ \E draws \in OrderDraws, order \in Orders(Len(Groups)) :
              \E outcome \in OutcomesIn(order, draws) :
                  \E c \in outcome.counts : c.count # SnapshotCount(c.location)
        /\ \E draws \in OrderDraws, first, second \in Orders(Len(Groups)) :
              OutcomesIn(first, draws) # OutcomesIn(second, draws)

\* The order of insertion, the one a dict iterates in
InsertionOrder == [k \in 1..Len(Groups) |-> k]

\* C15 amended: groups processed later read the set groups processed earlier
\* have added to, but no count and no outcome changes with it: for the same
\* draws of mask wearing and distancing, what a call can end with (infected
\* set, list returned, count of every group) is in every order of the groups
\* what it is in the order of insertion.
C15_OutcomesSameInEveryOrder ==
    pc = "call" =>
        \A draws \in OrderDraws :
            LET inserted == OutcomesIn(InsertionOrder, draws)
            IN  \A order \in Orders(Len(Groups)) : OutcomesIn(order, draws) = inserted

\* C15 witness: the groups were processed against the order of insertion (the
\* group of the first person came second); a person became infected in the
\* group processed first, and the group processed second, with a count of 0,
\* kept its person uninfected.
C15_Witness ==
    /\ pc = "returned"
    /\ Len(population) = 3
    /\ Len(result) = 2
    /\ result[2].location = available_locations[call.choice[1]]
    /\ result[1].count = 1 /\ result[2].count = 0
    /\ \E k \in 1..Len(summary) :
          /\ summary[k].place = result[1].location
          /\ ~summary[k].pre_visit_covid /\ summary[k].post_visit_covid
    /\ \A k \in 1..Len(summary) :
          summary[k].place = result[2].location => ~summary[k].post_visit_covid

====
